---- MODULE Spec2Model ----
(***************************************************************************)
(* A model of scripts/python/scan_mcp_servers.py: MCPSecurityScanner's     *)
(* orchestration loop (scan_all_servers), the two transport strategies     *)
(* (scan_stdio_server, scan_http_server), the result normalizer            *)
(* (_process_tool_results) and the summary fold.                           *)
(*                                                                         *)
(* Python values are modelled as follows.                                  *)
(*   - A dict or an object with attributes is a record; `k in d` and       *)
(*     hasattr(o, k) are  k \in DOMAIN d.  A JSON entry that is not an     *)
(*     object is the record [nondict |-> <its JSON kind>].                 *)
(*   - None is the string "None"; a Python bool is "True" / "False".       *)
(*   - A string the code takes apart (the Authorization header) is a       *)
(*     sequence of lexemes, "Bearer " being one lexeme.                    *)
(*   - A call that may raise returns [exc |-> TRUE, msg |-> str(e)] or     *)
(*     [exc |-> FALSE, val |-> <value>].                                   *)
(*   - The code between two awaits runs atomically (asyncio), so each      *)
(*     action runs from one suspension point to the next.                  *)
(*   - The outer except of scan_all_servers (status "error") is entered    *)
(*     only when a statement of the loop body outside the strategies' own  *)
(*     try blocks raises. For an entry that is an object those statements  *)
(*     are prints, dict reads with defaults and the summary update. A      *)
(*     print raises UnicodeEncodeError when the text it formats holds a    *)
(*     lone surrogate (the JSON string "\ud800"), which stdout cannot      *)
(*     encode. The entries of Spec hold none, so none of its actions       *)
(*     enters that handler; the entries of SpecIO do.                      *)
(*                                                                         *)
(* main of scripts/python/scan_claude_skills.py is modelled by the         *)
(* variable `skill` and the specification SpecSkills.                      *)
(***************************************************************************)
EXTENDS Naturals, Sequences, FiniteSets, TLC

VARIABLES
    document,    \* the file at config_path, as _load_mcp_config finds it
    skill,       \* scan_claude_skills.py: main's arguments, position, report and exit code
    mcpServers,  \* self.mcp_config["mcpServers"], in document order (name = position)
    pc,          \* where scan_all_servers is: start | loop | await | done | raised
    i,           \* position of the server the for loop is at
    pending,     \* the strategy's local `result` while it awaits the engine
    call,        \* the engine call in flight: its function and its auth argument
    engine,      \* what the engine answered to each server's call (environment log)
    invoked,     \* which strategy was invoked for each server (call log)
    servers,     \* self.results["servers"]
    summary,     \* self.results["summary"]
    escaped      \* str(e) of the exception that left scan_all_servers, if any

vars ==
    <<document, skill, mcpServers, pc, i, pending, call, engine, invoked, servers, summary,
      escaped>>

\* ------------------------------------------------------------------ bounds

MaxServers == 3

MaxFindings == 2

MaxCount == 1

MaxHeaderLen == 3

\* ------------------------------------------------------------ Python values

None == "None"

EmptyDict == [k \in {} |-> None]

NoEntry == [status |-> "<no entry>"]

NoCall == [fn |-> "<none>"]

NotCalled == [kind |-> "not called"]

Raise(m) == [exc |-> TRUE, msg |-> m]

Return(v) == [exc |-> FALSE, val |-> v]

HasAttr(o, a) == a \in DOMAIN o

Get(d, k, default) == IF k \in DOMAIN d THEN d[k] ELSE default

Truthy(v) == v \notin {"False", "None"}

IsDict(cfg) == "nondict" \notin DOMAIN cfg

KeyErrorMsg(k) == "'" \o k \o "'"

AttributeErrorMsg(a) == "object has no attribute '" \o a \o "'"

\* --------------------------------------------------------- Result normalizer

\* ProcessFinding with the fallback severity INFO in place of str(finding.severity).
ProcessFindingInfoDefault(finding) ==
    IF ~HasAttr(finding, "severity")
    THEN Raise(AttributeErrorMsg("severity"))
    ELSE IF ~HasAttr(finding, "description") /\ ~HasAttr(finding, "summary")
    THEN Raise(AttributeErrorMsg("summary"))
    ELSE Return([
        severity     |-> IF HasAttr(finding.severity, "value")
                         THEN finding.severity.value
                         ELSE "INFO",
        category     |-> IF HasAttr(finding, "category") THEN finding.category ELSE None,
        description  |-> IF HasAttr(finding, "description")
                         THEN finding.description
                         ELSE finding.summary,
        threat_names |-> IF HasAttr(finding, "threat_names")
                         THEN finding.threat_names
                         ELSE <<>> ])

\* ProcessFinding with the two description fields probed in the other order.
ProcessFindingPrefersSummary(finding) ==
    IF ~HasAttr(finding, "severity")
    THEN Raise(AttributeErrorMsg("severity"))
    ELSE IF ~HasAttr(finding, "description") /\ ~HasAttr(finding, "summary")
    THEN Raise(AttributeErrorMsg("description"))
    ELSE Return([
        severity     |-> IF HasAttr(finding.severity, "value")
                         THEN finding.severity.value
                         ELSE finding.severity.str,
        category     |-> IF HasAttr(finding, "category") THEN finding.category ELSE None,
        description  |-> IF HasAttr(finding, "summary")
                         THEN finding.summary
                         ELSE finding.description,
        threat_names |-> IF HasAttr(finding, "threat_names")
                         THEN finding.threat_names
                         ELSE <<>> ])

\* One raw finding -> one dict of tool_data["findings"]. The dict display evaluates
\* severity, category, description, threat_names in that order; the first
\* unguarded attribute that is absent raises AttributeError.
ProcessFinding(finding) ==
    IF ~HasAttr(finding, "severity")
    THEN Raise(AttributeErrorMsg("severity"))
    ELSE IF ~HasAttr(finding, "description") /\ ~HasAttr(finding, "summary")
    THEN Raise(AttributeErrorMsg("summary"))
    ELSE Return([
        severity     |-> IF HasAttr(finding.severity, "value")
                         THEN finding.severity.value
                         ELSE finding.severity.str,
        category     |-> IF HasAttr(finding, "category") THEN finding.category ELSE None,
        description  |-> IF HasAttr(finding, "description")
                         THEN finding.description
                         ELSE finding.summary,
        threat_names |-> IF HasAttr(finding, "threat_names")
                         THEN finding.threat_names
                         ELSE <<>> ])

\* The loop over tool_result.findings, appending to `acc`; stops at the first raise.
RECURSIVE ProcessFindings(_, _)
ProcessFindings(findings, acc) ==
    IF findings = <<>>
    THEN Return(acc)
    ELSE LET f == ProcessFinding(Head(findings))
         IN  IF f.exc THEN f ELSE ProcessFindings(Tail(findings), Append(acc, f.val))

\* tool_data["analyzer_results"] for a tool_result that has the attribute.
ProcessAnalyzerResults(analyzer_results) ==
    [analyzer_name \in DOMAIN analyzer_results |->
        LET analyzer_result == analyzer_results[analyzer_name]
        IN  [is_safe        |-> IF HasAttr(analyzer_result, "is_safe")
                                THEN analyzer_result.is_safe
                                ELSE "True",
             findings_count |-> IF HasAttr(analyzer_result, "findings")
                                THEN Len(analyzer_result.findings)
                                ELSE 0]]

\* The attributes of tool_result read without a hasattr guard, in reading order.
RequiredToolAttrs == <<"tool_name", "tool_description", "is_safe", "status", "findings">>

FirstMissing(o, attrs) ==
    LET missing == {k \in 1..Len(attrs) : ~HasAttr(o, attrs[k])}
    IN  IF missing = {} THEN 0 ELSE CHOOSE k \in missing : \A m \in missing : k <= m

\* One pass of the outer loop body: tool_result -> tool_data.
ProcessTool(tool_result) ==
    LET k == FirstMissing(tool_result, RequiredToolAttrs)
    IN  IF k # 0
        THEN Raise(AttributeErrorMsg(RequiredToolAttrs[k]))
        ELSE LET fs == ProcessFindings(tool_result.findings, <<>>)
             IN  IF fs.exc
                 THEN fs
                 ELSE Return([
                     name             |-> tool_result.tool_name,
                     description      |-> tool_result.tool_description,
                     is_safe          |-> tool_result.is_safe,
                     status           |-> tool_result.status,
                     findings         |-> fs.val,
                     analyzer_results |-> IF HasAttr(tool_result, "analyzer_results")
                                          THEN ProcessAnalyzerResults(tool_result.analyzer_results)
                                          ELSE EmptyDict ])

RECURSIVE ProcessToolLoop(_, _)
ProcessToolLoop(tool_results, processed) ==
    IF tool_results = <<>>
    THEN Return(processed)
    ELSE LET t == ProcessTool(Head(tool_results))
         IN  IF t.exc THEN t ELSE ProcessToolLoop(Tail(tool_results), Append(processed, t.val))

\* _process_tool_results: `processed` is returned only when no tool raised.
ProcessToolResults(tool_results) == ProcessToolLoop(tool_results, <<>>)

\* ------------------------------------------------------ Transport strategies

\* The engine's answer to an awaited call: it raises, or returns tool_results.
Raised(m) == [kind |-> "raise", msg |-> m]

Returned(v) == [kind |-> "return", val |-> v]

\* auth = None
NoAuth == [auth_type |-> None]

\* `result` as scan_stdio_server builds it before its try block.
StdioResult(server_config) ==
    [server_type |-> "stdio",
     command     |-> Get(server_config, "command", None),
     args        |-> Get(server_config, "args", <<>>),
     status      |-> "pending",
     tools       |-> <<>>,
     error       |-> None]

\* `result` as scan_http_server builds it before its try block.
HttpResult(server_config) ==
    [server_type |-> "http",
     url         |-> Get(server_config, "url", None),
     status      |-> "pending",
     tools       |-> <<>>,
     error       |-> None]

\* The except handler of scan_stdio_server without result["error"] = str(e).
StdioExceptNoMessage(result, msg) == [result EXCEPT !.status = "failed"]

\* except Exception as e: of scan_stdio_server.
StdioExcept(result, msg) == [result EXCEPT !.status = "failed", !.error = msg]

\* except Exception as e: of scan_http_server.
HttpExcept(result, msg) == [result EXCEPT !.status = "failed", !.error = msg]

\* scan_stdio_server up to its await: StdioServer(command=server_config["command"], ...)
\* raises KeyError when the entry has no command; otherwise the engine is called.
StdioCall(server_config) ==
    IF "command" \notin DOMAIN server_config
    THEN Raise(KeyErrorMsg("command"))
    ELSE Return([fn      |-> "scan_stdio_server_tools",
                 command |-> server_config.command])

\* auth_header.startswith("Bearer ")
StartsWithBearer(auth_header) == Len(auth_header) >= 1 /\ auth_header[1] = "Bearer "

\* auth_header.replace("Bearer ", ""): every occurrence is removed.
RECURSIVE ReplaceBearer(_)
ReplaceBearer(auth_header) ==
    IF auth_header = <<>>
    THEN <<>>
    ELSE IF Head(auth_header) = "Bearer "
    THEN ReplaceBearer(Tail(auth_header))
    ELSE <<Head(auth_header)>> \o ReplaceBearer(Tail(auth_header))

\* The bearer-token extraction of scan_http_server.
ExtractAuth(server_config) ==
    LET headers == Get(server_config, "headers", EmptyDict)
    IN  IF "Authorization" \in DOMAIN headers /\ StartsWithBearer(headers["Authorization"])
        THEN [auth_type    |-> "BEARER",
              bearer_token |-> ReplaceBearer(headers["Authorization"])]
        ELSE NoAuth

\* scan_http_server up to its await: server_config["url"] raises KeyError when the
\* entry has no url; otherwise the engine is called with the extracted auth.
HttpCall(server_config) ==
    LET auth == ExtractAuth(server_config)
    IN  IF "url" \notin DOMAIN server_config
        THEN Raise(KeyErrorMsg("url"))
        ELSE Return([fn         |-> "scan_remote_server_tools",
                     server_url |-> server_config.url,
                     auth       |-> auth])

\* scan_stdio_server from the return of its await to `return result`.
StdioFinish(result, answer) ==
    IF answer.kind = "raise"
    THEN StdioExcept(result, answer.msg)
    ELSE LET completed == [result EXCEPT !.status = "completed"]
             processed == ProcessToolResults(answer.val)
         IN  IF processed.exc
             THEN StdioExcept(completed, processed.msg)
             ELSE [completed EXCEPT !.tools = processed.val]

\* scan_http_server with a handler that records the error and leaves the status.
HttpFinishKeepsStatus(result, answer) ==
    IF answer.kind = "raise"
    THEN HttpExcept(result, answer.msg)
    ELSE LET completed == [result EXCEPT !.status = "completed"]
             processed == ProcessToolResults(answer.val)
         IN  IF processed.exc
             THEN [completed EXCEPT !.error = processed.msg]
             ELSE [completed EXCEPT !.tools = processed.val]

\* scan_http_server from the return of its await to `return result`.
HttpFinish(result, answer) ==
    IF answer.kind = "raise"
    THEN HttpExcept(result, answer.msg)
    ELSE LET completed == [result EXCEPT !.status = "completed"]
             processed == ProcessToolResults(answer.val)
         IN  IF processed.exc
             THEN HttpExcept(completed, processed.msg)
             ELSE [completed EXCEPT !.tools = processed.val]

\* ------------------------------------------------------------- Aggregation

\* sum(1 for t in tools if t["is_safe"])
RECURSIVE SafeCount(_)
SafeCount(tools) ==
    IF tools = <<>> THEN 0
    ELSE (IF Truthy(Head(tools).is_safe) THEN 1 ELSE 0) + SafeCount(Tail(tools))

\* sum(1 for t in tools if t["is_safe"] is False)
RECURSIVE UnsafeCountIsFalse(_)
UnsafeCountIsFalse(tools) ==
    IF tools = <<>> THEN 0
    ELSE (IF Head(tools).is_safe = "False" THEN 1 ELSE 0) + UnsafeCountIsFalse(Tail(tools))

\* sum(1 for t in tools if not t["is_safe"])
RECURSIVE UnsafeCount(_)
UnsafeCount(tools) ==
    IF tools = <<>> THEN 0
    ELSE (IF ~Truthy(Head(tools).is_safe) THEN 1 ELSE 0) + UnsafeCount(Tail(tools))

\* sum(len(t["findings"]) for t in tools)
RECURSIVE FindingsCount(_)
FindingsCount(tools) ==
    IF tools = <<>> THEN 0
    ELSE Len(Head(tools).findings) + FindingsCount(Tail(tools))

\* self.results["summary"] as __init__ leaves it.
InitialSummary ==
    [total_servers   |-> 0,
     scanned_servers |-> 0,
     failed_servers  |-> 0,
     total_tools     |-> 0,
     safe_tools      |-> 0,
     unsafe_tools    |-> 0,
     total_findings  |-> 0]

\* The completed branch counting the tools that have findings, not the findings.
FoldCompletedCountsFlaggedTools(s, server_result) ==
    [s EXCEPT !.scanned_servers = @ + 1,
              !.total_tools     = @ + Len(server_result.tools),
              !.safe_tools      = @ + SafeCount(server_result.tools),
              !.unsafe_tools    = @ + UnsafeCount(server_result.tools),
              !.total_findings  = @ + Cardinality({t \in 1..Len(server_result.tools) :
                                        server_result.tools[t].findings # <<>>})]

\* The completed branch with = in place of += for the tool counters.
FoldCompletedOverwrites(s, server_result) ==
    [s EXCEPT !.scanned_servers = @ + 1,
              !.total_tools     = Len(server_result.tools),
              !.safe_tools      = SafeCount(server_result.tools),
              !.unsafe_tools    = UnsafeCount(server_result.tools),
              !.total_findings  = @ + FindingsCount(server_result.tools)]

\* The branch for status "completed" of "Update summary statistics".
FoldCompleted(s, server_result) ==
    [s EXCEPT !.scanned_servers = @ + 1,
              !.total_tools     = @ + Len(server_result.tools),
              !.safe_tools      = @ + SafeCount(server_result.tools),
              !.unsafe_tools    = @ + UnsafeCount(server_result.tools),
              !.total_findings  = @ + FindingsCount(server_result.tools)]

\* The branch for status "failed".
FoldFailed(s, server_result) == [s EXCEPT !.failed_servers = @ + 1]

\* The summary update with a plain else in place of elif status == "failed".
UpdateSummaryElseFailed(s, server_result) ==
    IF server_result.status = "completed"
    THEN FoldCompleted(s, server_result)
    ELSE FoldFailed(s, server_result)

\* "Update summary statistics": the fold of one server result into the summary.
UpdateSummary(s, server_result) ==
    IF server_result.status = "completed"
    THEN FoldCompleted(s, server_result)
    ELSE IF server_result.status = "failed"
    THEN FoldFailed(s, server_result)
    ELSE s

\* The else branch of the dispatch recording the entry as failed.
SkippedResultAsFailed(server_type) ==
    [server_type |-> server_type,
     status      |-> "failed",
     error       |-> "Unsupported server type: " \o server_type,
     tools       |-> <<>>]

\* The result built in the else branch of the dispatch.
SkippedResult(server_type) ==
    [server_type |-> server_type,
     status      |-> "skipped",
     error       |-> "Unsupported server type: " \o server_type,
     tools       |-> <<>>]

\* server_config.get("type", "unknown")
ServerType(server_config) == Get(server_config, "type", "unknown")

\* The JSON string "\ud800": a str that stdout's encoder rejects.
LoneSurrogate == "<U+D800>"

\* str(e) of the UnicodeEncodeError print raises for it.
UnicodeEncodeErrorMsg == "'utf-8' codec can't encode character '\\ud800': surrogates not allowed"

\* The prints of a loop pass that format the entry's own text, all outside the
\* strategies' try blocks: the command of a stdio entry, the url of an http
\* entry, the type of any other entry. (args is printed as a list, by repr,
\* which escapes.) True when one of them raises.
PrintRaises(server_config) ==
    IF ServerType(server_config) = "stdio"
    THEN Get(server_config, "command", None) = LoneSurrogate
    ELSE IF ServerType(server_config) = "http"
    THEN Get(server_config, "url", None) = LoneSurrogate
    ELSE ServerType(server_config) = LoneSurrogate

\* The entry the outer except of scan_all_servers stores.
OuterExcept(msg) == [status |-> "error", error |-> msg, tools |-> <<>>]

\* ------------------------------------------------------------------ inputs

\* Entries of the configuration document's "mcpServers" object.
StdioEntry == [type |-> "stdio", command |-> "npx"]

StdioNoCommand == [type |-> "stdio", env |-> "PATH"]

HttpEntry == [type |-> "http", url |-> "https://mcp.example"]

HttpBearerEntry ==
    [type |-> "http", url |-> "https://mcp.example",
     headers |-> [Authorization |-> <<"Bearer ", "tok">>]]

HttpNoUrl == [type |-> "http", headers |-> [Accept |-> <<"json">>]]

WebsocketEntry == [type |-> "websocket", url |-> "wss://mcp.example"]

NoTypeEntry == [command |-> "npx"]

\* An entry that is a JSON string, not an object.
NonDictEntry == [nondict |-> "string"]

DictEntries ==
    {StdioEntry, StdioNoCommand, HttpEntry, HttpBearerEntry, HttpNoUrl,
     WebsocketEntry, NoTypeEntry}

\* Raw findings of the analyzer engine.
HighFinding ==
    [severity |-> [value |-> "HIGH"], category |-> "injection",
     description |-> "hidden instruction", summary |-> "injection found",
     threat_names |-> <<"PROMPT INJECTION">>]

DriftFinding == [severity |-> [str |-> "bogus"], summary |-> "odd tool"]

\* Raw tool results of the analyzer engine.
SafeTool ==
    [tool_name |-> "read", tool_description |-> "reads", is_safe |-> "True",
     status |-> "completed", findings |-> <<>>]

UnsafeTool ==
    [tool_name |-> "exec", tool_description |-> "runs", is_safe |-> "False",
     status |-> "completed", findings |-> <<HighFinding>>,
     analyzer_results |-> [yara |-> [is_safe |-> "False", findings |-> <<HighFinding>>]]]

UndecidedTool ==
    [tool_name |-> "fetch", tool_description |-> "fetches", is_safe |-> "None",
     status |-> "completed", findings |-> <<DriftFinding, HighFinding>>,
     analyzer_results |-> [llm |-> [verdict |-> "unknown"]]]

\* A tool result of a drifted schema: no is_safe attribute.
BrokenTool ==
    [tool_name |-> "drift", tool_description |-> "drifted",
     status |-> "completed", findings |-> <<>>]

EngineReturns ==
    {<<>>, <<SafeTool, UnsafeTool>>, <<UndecidedTool>>, <<SafeTool, BrokenTool>>}

EngineErrors == {"server unreachable"}

SeqsUpTo(S, n) == UNION {[1..k -> S] : k \in 0..n}

\* ---------------------------------------------------- Configuration loader

\* A configuration file holding a JSON object with the key "mcpServers".
DocumentOf(configuration) ==
    [exists |-> TRUE, json |-> TRUE, config |-> [mcpServers |-> configuration]]

\* No file at config_path.
MissingFile == [exists |-> FALSE]

\* A file that is not well-formed JSON.
MalformedFile == [exists |-> TRUE, json |-> FALSE]

\* A JSON object without the key "mcpServers".
NoKeyDocument ==
    [exists |-> TRUE, json |-> TRUE, config |-> [servers |-> <<StdioEntry>>]]

\* sys.exit(1)
SystemExit == Raise("SystemExit: 1")

\* LoadMcpConfig returning an empty configuration where the code gives up.
LoadMcpConfigLenient(doc) ==
    IF ~doc.exists \/ ~doc.json \/ "mcpServers" \notin DOMAIN doc.config
    THEN Return([mcpServers |-> <<>>])
    ELSE Return(doc.config)

\* _load_mcp_config: FileNotFoundError and JSONDecodeError end in sys.exit(1); the
\* ValueError for a missing "mcpServers" key is caught by neither handler.
LoadMcpConfig(doc) ==
    IF ~doc.exists THEN SystemExit
    ELSE IF ~doc.json THEN SystemExit
    ELSE IF "mcpServers" \notin DOMAIN doc.config
    THEN Raise("Invalid MCP config: missing 'mcpServers' key")
    ELSE Return(doc.config)

\* main of scan_claude_skills.py is not running.
SkillIdle == [pc |-> "idle"]

\* ------------------------------------------------------------ Orchestrator

N == Len(mcpServers)

\* The state MCPSecurityScanner.__init__ leaves, scan_all_servers not yet started.
InitWith(configurations) ==
    /\ mcpServers \in configurations
    /\ document = DocumentOf(mcpServers)
    /\ skill = SkillIdle
    /\ pc = "start"
    /\ i = 1
    /\ pending = NoEntry
    /\ call = NoCall
    /\ engine = [k \in 1..Len(mcpServers) |-> NotCalled]
    /\ invoked = [k \in 1..Len(mcpServers) |-> "none"]
    /\ servers = [k \in 1..Len(mcpServers) |-> NoEntry]
    /\ summary = InitialSummary
    /\ escaped = None

Init == InitWith(SeqsUpTo(DictEntries, MaxServers))

\* scan_all_servers up to the for loop.
Begin ==
    /\ pc = "start"
    /\ summary' = [summary EXCEPT !.total_servers = Len(mcpServers)]
    /\ pc' = "loop"
    /\ UNCHANGED <<document, skill, mcpServers, i, pending, call, engine, invoked, servers, escaped>>

\* Store folding the result into the summary twice.
StoreFoldsTwice(server_result) ==
    /\ servers' = [servers EXCEPT ![i] = server_result]
    /\ summary' = UpdateSummary(UpdateSummary(summary, server_result), server_result)
    /\ i' = i + 1
    /\ pc' = "loop"
    /\ pending' = NoEntry
    /\ call' = NoCall

\* self.results["servers"][server_name] = server_result, the summary update, and
\* the step of the for loop to the next entry.
Store(server_result) ==
    /\ servers' = [servers EXCEPT ![i] = server_result]
    /\ summary' = UpdateSummary(summary, server_result)
    /\ i' = i + 1
    /\ pc' = "loop"
    /\ pending' = NoEntry
    /\ call' = NoCall

AtEntry == pc = "loop" /\ i <= N

\* server_type == "stdio": scan_stdio_server runs to its await, or, when building
\* the call raises, through its except handler and the summary update.
DispatchStdio ==
    /\ AtEntry
    /\ IsDict(mcpServers[i])
    /\ ServerType(mcpServers[i]) = "stdio"
    /\ ~PrintRaises(mcpServers[i])
    /\ invoked' = [invoked EXCEPT ![i] = "scan_stdio_server"]
    /\ LET result == StdioResult(mcpServers[i])
           c == StdioCall(mcpServers[i])
       IN  IF c.exc
           THEN Store(StdioExcept(result, c.msg))
           ELSE /\ pending' = result
                /\ call' = c.val
                /\ pc' = "await"
                /\ UNCHANGED <<i, servers, summary>>
    /\ UNCHANGED <<document, skill, mcpServers, engine, escaped>>

\* server_type == "http": scan_http_server likewise.
DispatchHttp ==
    /\ AtEntry
    /\ IsDict(mcpServers[i])
    /\ ServerType(mcpServers[i]) = "http"
    /\ ~PrintRaises(mcpServers[i])
    /\ invoked' = [invoked EXCEPT ![i] = "scan_http_server"]
    /\ LET result == HttpResult(mcpServers[i])
           c == HttpCall(mcpServers[i])
       IN  IF c.exc
           THEN Store(HttpExcept(result, c.msg))
           ELSE /\ pending' = result
                /\ call' = c.val
                /\ pc' = "await"
                /\ UNCHANGED <<i, servers, summary>>
    /\ UNCHANGED <<document, skill, mcpServers, engine, escaped>>

\* The else branch: any other type, or none.
DispatchSkip ==
    /\ AtEntry
    /\ IsDict(mcpServers[i])
    /\ ServerType(mcpServers[i]) \notin {"stdio", "http"}
    /\ ~PrintRaises(mcpServers[i])
    /\ Store(SkippedResult(ServerType(mcpServers[i])))
    /\ UNCHANGED <<document, skill, mcpServers, engine, invoked, escaped>>

\* The strategy's result once the engine has answered.
Finish(result, answer) ==
    IF result.server_type = "stdio"
    THEN StdioFinish(result, answer)
    ELSE HttpFinish(result, answer)

\* The awaited engine call returns tool_results: the strategy resumes, returns
\* its result, and the orchestrator stores and folds it.
EngineReturnFrom(returns) ==
    /\ pc = "await"
    /\ \E v \in returns :
        /\ engine' = [engine EXCEPT ![i] = Returned(v)]
        /\ Store(Finish(pending, Returned(v)))
    /\ UNCHANGED <<document, skill, mcpServers, invoked, escaped>>

EngineReturn == EngineReturnFrom(EngineReturns)

\* The awaited engine call raises.
EngineRaise ==
    /\ pc = "await"
    /\ \E m \in EngineErrors :
        /\ engine' = [engine EXCEPT ![i] = Raised(m)]
        /\ Store(Finish(pending, Raised(m)))
    /\ UNCHANGED <<document, skill, mcpServers, invoked, escaped>>

\* The for loop is exhausted: scan_all_servers returns.
ReturnFromScan ==
    /\ pc = "loop"
    /\ i > N
    /\ pc' = "done"
    /\ UNCHANGED <<document, skill, mcpServers, i, pending, call, engine, invoked, servers,
                   summary, escaped>>

Next ==
    \/ Begin
    \/ DispatchStdio
    \/ DispatchHttp
    \/ DispatchSkip
    \/ EngineReturn
    \/ EngineRaise
    \/ ReturnFromScan

Spec == Init /\ [][Next]_vars

\* ------------------------------------------- Entries of any JSON shape

\* server_config.get("type", "unknown") on an entry that is not an object raises
\* AttributeError before the try block of the loop body: it leaves scan_all_servers.
DispatchNonDict ==
    /\ AtEntry
    /\ ~IsDict(mcpServers[i])
    /\ pc' = "raised"
    /\ escaped' = AttributeErrorMsg("get")
    /\ UNCHANGED <<document, skill, mcpServers, i, pending, call, engine, invoked, servers,
                   summary>>

InitShapes == InitWith(SeqsUpTo(DictEntries \cup {NonDictEntry}, MaxServers))

NextShapes == Next \/ DispatchNonDict

SpecShapes == InitShapes /\ [][NextShapes]_vars

\* ------------------------------- The normalizer on findings of any schema

Restrict(f, K) == [k \in K |-> f[k]]

FindingAttrs == {"severity", "category", "description", "summary", "threat_names"}

\* A finding with every attribute; severity is an enum member (it has .value) or
\* a plain string (it has none, str() gives the string).
FullFinding(severity) ==
    [severity |-> severity, category |-> "injection",
     description |-> "hidden instruction", summary |-> "injection found",
     threat_names |-> <<"PROMPT INJECTION">>]

\* Findings with any subset of the attributes.
WideFindings ==
    {Restrict(FullFinding(sev), K) :
        sev \in {[value |-> "HIGH"], [str |-> "bogus"]}, K \in SUBSET FindingAttrs}

WideTool(findings) ==
    [tool_name |-> "exec", tool_description |-> "runs", is_safe |-> "False",
     status |-> "completed", findings |-> findings]

WideReturns == {<<WideTool(fs)>> : fs \in SeqsUpTo(WideFindings, MaxFindings)}

EngineReturnWide == EngineReturnFrom(WideReturns)

InitNorm == InitWith({<<StdioEntry>>})

NextNorm ==
    \/ Begin
    \/ DispatchStdio
    \/ EngineReturnWide
    \/ ReturnFromScan

SpecNorm == InitNorm /\ [][NextNorm]_vars

\* ------------------------------------------------------------------ claims

Terminal == {"completed", "failed", "skipped"}

Processed(k) == k \in 1..N /\ k < i

\* The scan of server k raised: building the call raised KeyError, the engine
\* raised, or _process_tool_results raised on what the engine returned.
ScanRaised(k) ==
    \/ invoked[k] = "scan_stdio_server" /\ "command" \notin DOMAIN mcpServers[k]
    \/ invoked[k] = "scan_http_server" /\ "url" \notin DOMAIN mcpServers[k]
    \/ engine[k].kind = "raise"
    \/ engine[k].kind = "return" /\ ProcessToolResults(engine[k].val).exc

\* str(e) of that exception.
RaisedMessage(k) ==
    IF engine[k].kind = "raise" THEN engine[k].msg
    ELSE IF engine[k].kind = "return" THEN ProcessToolResults(engine[k].val).msg
    ELSE IF invoked[k] = "scan_stdio_server" THEN "'command'"
    ELSE "'url'"

SkippedServers == Cardinality({k \in 1..N : servers[k].status = "skipped"})

\* C2: once scan_all_servers has returned, total_servers is the number of
\* configured servers and scanned + failed + skipped servers add up to it.
C2_ServerCounts ==
    pc = "done" =>
        /\ summary.total_servers = N
        /\ summary.scanned_servers + summary.failed_servers + SkippedServers = N

\* A finished run of three servers: one completed, one failed, one skipped.
C2_Witness ==
    /\ pc = "done"
    /\ N = 3
    /\ \E k, l, m \in 1..N :
        /\ servers[k].status = "completed"
        /\ servers[l].status = "failed"
        /\ servers[m].status = "skipped"

\* C3: in every state of the run safe_tools + unsafe_tools = total_tools, and every
\* completed server result counts each of its tools as safe or as unsafe, whatever
\* is_safe the engine gave (None included).
C3_SafePlusUnsafe ==
    /\ summary.safe_tools + summary.unsafe_tools = summary.total_tools
    /\ \A k \in 1..N :
        servers[k].status = "completed" =>
            SafeCount(servers[k].tools) + UnsafeCount(servers[k].tools)
                = Len(servers[k].tools)

\* A completed server with a tool whose is_safe is None has been folded, after
\* another completed server with a safe tool.
C3_Witness ==
    /\ pc = "loop"
    /\ summary.total_tools >= 2
    /\ \E k \in 1..N :
        /\ servers[k].status = "completed"
        /\ \E t \in 1..Len(servers[k].tools) : servers[k].tools[t].is_safe = "None"

RECURSIVE SumOver(_, _)
SumOver(f, K) ==
    IF K = {} THEN 0
    ELSE LET k == CHOOSE x \in K : TRUE IN f[k] + SumOver(f, K \ {k})

CompletedServers == {k \in 1..N : servers[k].status = "completed"}

ToolsOf == [k \in 1..N |-> Len(servers[k].tools)]

FindingsOf ==
    [k \in 1..N |->
        SumOver([t \in 1..Len(servers[k].tools) |-> Len(servers[k].tools[t].findings)],
                1..Len(servers[k].tools))]

\* C4: after any prefix of the servers, total_tools is the number of tools of the
\* completed server results recorded so far and total_findings the number of their
\* findings; failed and skipped servers add to neither.
C4_ToolAndFindingTotals ==
    /\ summary.total_tools = SumOver(ToolsOf, CompletedServers)
    /\ summary.total_findings = SumOver(FindingsOf, CompletedServers)

\* Two completed servers with findings, a failed and a skipped one are recorded.
C4_Witness ==
    /\ summary.total_findings >= 3
    /\ Cardinality(CompletedServers) >= 2
    /\ \E k \in 1..N : servers[k].status = "failed"

UnsupportedEntry ==
    AtEntry /\ IsDict(mcpServers[i]) /\ ServerType(mcpServers[i]) \notin {"stdio", "http"}

C6_AllOrNothing ==
    \A k \in 1..N :
        Processed(k) /\ invoked[k] # "none" =>
            \/ /\ servers[k].status = "completed"
               /\ servers[k].error = None
               /\ engine[k].kind = "return"
               /\ Len(servers[k].tools) = Len(engine[k].val)
            \/ /\ servers[k].status = "failed"
               /\ servers[k].error # None
               /\ servers[k].tools = <<>>

\* The engine returned two tools, the second of a drifted schema: the first was
\* processed, then _process_tool_results raised, and the result is failed and empty.
C6_Witness ==
    \E k \in 1..N :
        /\ Processed(k)
        /\ engine[k].kind = "return" /\ Len(engine[k].val) = 2
        /\ ~ProcessTool(engine[k].val[1]).exc
        /\ servers[k].status = "failed" /\ servers[k].tools = <<>>

\* C7: for a well-formed document with an "mcpServers" object, whatever the shape
\* of its entries, no exception leaves scan_all_servers, the run goes on until it
\* is done, and then the detail tree has an entry for every configured server.
C7_AlwaysReturns ==
    /\ escaped = None /\ pc # "raised"
    /\ pc = "done" => \A k \in 1..N : servers[k] # NoEntry

\* The summary after folding the recorded results in the order `order`.
RECURSIVE FoldInOrder(_, _)
FoldInOrder(order, k) ==
    IF k = 0
    THEN [InitialSummary EXCEPT !.total_servers = N]
    ELSE UpdateSummary(FoldInOrder(order, k - 1), servers[order[k]])

\* C8: the fold has no order. Once the run is done, folding the recorded server
\* results in any permutation gives the summary the run computed.
C8_FoldOrderIndependent ==
    pc = "done" => \A order \in Permutations(1..N) : FoldInOrder(order, N) = summary

\* A finished run of three servers: two completed with different tool counts, one failed.
C8_Witness ==
    /\ pc = "done"
    /\ N = 3
    /\ \E k, l, m \in 1..N :
        /\ servers[k].status = "completed" /\ servers[l].status = "completed"
        /\ Len(servers[k].tools) # Len(servers[l].tools)
        /\ servers[m].status = "failed"

\* The findings the engine returned for the tool of the one server of SpecNorm,
\* and what is recorded for them.
RawFindings == engine[1].val[1].findings

Recorded == servers[1].tools[1].findings

Answered == Processed(1) /\ engine[1].kind = "return"

\* Every raw finding has a severity attribute, and a description or a summary.
NoRequiredAttrMissing ==
    \A j \in 1..Len(RawFindings) :
        /\ HasAttr(RawFindings[j], "severity")
        /\ HasAttr(RawFindings[j], "description") \/ HasAttr(RawFindings[j], "summary")

Unparseable(finding) == HasAttr(finding, "severity") /\ ~HasAttr(finding.severity, "value")

C10_OptionalFieldDefaults ==
    Answered =>
        /\ NoRequiredAttrMissing => servers[1].status = "completed"
        /\ servers[1].status = "completed" =>
            /\ Len(Recorded) = Len(RawFindings)
            /\ \A j \in 1..Len(RawFindings) :
                LET raw == RawFindings[j]
                    out == Recorded[j]
                IN  /\ HasAttr(raw, "description") => out.description = raw.description
                    /\ ~HasAttr(raw, "description") => out.description = raw.summary
                    /\ HasAttr(raw, "threat_names") => out.threat_names = raw.threat_names
                    /\ ~HasAttr(raw, "threat_names") => out.threat_names = <<>>
                    /\ HasAttr(raw, "category") => out.category = raw.category
                    /\ ~HasAttr(raw, "category") => out.category = None

\* A completed scan with a finding that has only severity and summary, and one
\* that has both description and summary.
C10_Witness ==
    /\ Answered
    /\ servers[1].status = "completed"
    /\ \E j, l \in 1..Len(RawFindings) :
        /\ DOMAIN RawFindings[j] = {"severity", "summary"}
        /\ Recorded[j].description = "injection found"
        /\ Recorded[j].threat_names = <<>>
        /\ Recorded[j].category = None
        /\ HasAttr(RawFindings[l], "description") /\ HasAttr(RawFindings[l], "summary")
        /\ Recorded[l].description = "hidden instruction"

\* The findings of severity `severity` in the completed server results recorded.
SeverityCount(severity) ==
    Cardinality({<<k, t, j>> \in (1..N) \X (1..2) \X (1..2) :
        /\ servers[k].status = "completed"
        /\ t <= Len(servers[k].tools)
        /\ j <= Len(servers[k].tools[t].findings)
        /\ servers[k].tools[t].findings[j].severity = severity})

HistogramBuckets ==
    {[key |-> "critical_count", severity |-> "CRITICAL"],
     [key |-> "high_count", severity |-> "HIGH"],
     [key |-> "medium_count", severity |-> "MEDIUM"],
     [key |-> "low_count", severity |-> "LOW"],
     [key |-> "info_count", severity |-> "INFO"]}

\* C11: the summary carries a severity histogram. Once a run with findings is done,
\* the summary has a counter for each of critical, high, medium, low and info, and
\* each holds the number of recorded findings of that severity.
C11_SeverityHistogram ==
    pc = "done" /\ summary.total_findings >= 1 =>
        \A b \in HistogramBuckets :
            /\ HasAttr(summary, b.key)
            /\ summary[b.key] = SeverityCount(b.severity)

\* --------------------------------------------- Construction of the scanner

\* MCPSecurityScanner.__init__: the configuration is loaded first; when that raises
\* the constructor is left and nothing else of the scanner exists.
ConstructWith(loaded) ==
    /\ pc = "new"
    /\ IF loaded.exc
       THEN /\ pc' = "exit"
            /\ escaped' = loaded.msg
            /\ UNCHANGED <<mcpServers, engine, invoked, servers, summary>>
       ELSE /\ pc' = "start"
            /\ mcpServers' = loaded.val.mcpServers
            /\ engine' = [k \in 1..Len(loaded.val.mcpServers) |-> NotCalled]
            /\ invoked' = [k \in 1..Len(loaded.val.mcpServers) |-> "none"]
            /\ servers' = [k \in 1..Len(loaded.val.mcpServers) |-> NoEntry]
            /\ summary' = InitialSummary
            /\ UNCHANGED escaped
    /\ UNCHANGED <<document, skill, i, pending, call>>

Construct == ConstructWith(LoadMcpConfig(document))

\* Configuration files: absent, malformed, without the key, and well-formed ones.
Documents ==
    {MissingFile, MalformedFile, NoKeyDocument}
        \cup {DocumentOf(c) : c \in SeqsUpTo({StdioEntry, StdioNoCommand, HttpBearerEntry,
                                              WebsocketEntry}, 2)}

\* Before MCPSecurityScanner(...) is called.
InitLoad ==
    /\ document \in Documents
    /\ skill = SkillIdle
    /\ mcpServers = <<>>
    /\ pc = "new"
    /\ i = 1
    /\ pending = NoEntry
    /\ call = NoCall
    /\ engine = <<>>
    /\ invoked = <<>>
    /\ servers = <<>>
    /\ summary = InitialSummary
    /\ escaped = None

NextLoad == Construct \/ Next

SpecLoad == InitLoad /\ [][NextLoad]_vars

ConfigurationError ==
    ~document.exists \/ ~document.json \/ "mcpServers" \notin DOMAIN document.config

\* C12: configuration errors are fatal before any scanning. With no file, a
\* malformed file or no "mcpServers" key the constructor never completes, no
\* strategy and no engine call is ever made, no server result is recorded and no
\* summary counter moves.
C12_ConfigErrorsAreFatal ==
    ConfigurationError =>
        /\ pc \in {"new", "exit"}
        /\ pc = "exit" => escaped # None
        /\ \A k \in DOMAIN invoked : invoked[k] = "none"
        /\ \A k \in DOMAIN servers : servers[k] = NoEntry
        /\ call = NoCall /\ pending = NoEntry
        /\ summary = InitialSummary

\* Construction failed on a document that is JSON but has no "mcpServers" key.
C12_Witness ==
    /\ pc = "exit"
    /\ document.exists /\ document.json
    /\ "mcpServers" \notin DOMAIN document.config
    /\ escaped = "Invalid MCP config: missing 'mcpServers' key"

\* ------------------------------------------- scan_claude_skills.py: main

\* No report: scan_directory has not returned one.
NoReport == [scanned |-> FALSE]

\* The reports scan_directory may return for one skill: the counts per severity
\* and whether the skill is safe.
Reports ==
    [scanned : {TRUE}, total_skills_scanned : {1}, safe_count : 0..1,
     critical_count : 0..MaxCount, high_count : 0..MaxCount, medium_count : 0..MaxCount,
     low_count : 0..MaxCount, info_count : 0..MaxCount]

\* The exit code with `and` in place of `or` between the two counts.
SkillExitCodeBoth(fail_on_findings, report) ==
    IF fail_on_findings /\ (report.critical_count > 0 /\ report.high_count > 0)
    THEN 1
    ELSE 0

\* "Check for critical/high findings" to the end of main.
SkillExitCode(fail_on_findings, report) ==
    IF fail_on_findings /\ (report.critical_count > 0 \/ report.high_count > 0)
    THEN 1
    ELSE 0

\* main after parse_args: the flags given, and whether the skills directory exists.
InitSkills ==
    /\ skill \in [pc : {"args"}, fail_on_findings : BOOLEAN,
                  format : {"summary", "json", "markdown", "both"},
                  dir_exists : BOOLEAN, report : {NoReport}, exit_code : {None}]
    /\ mcpServers = <<>>
    /\ document = DocumentOf(<<>>)
    /\ pc = "start"
    /\ i = 1
    /\ pending = NoEntry
    /\ call = NoCall
    /\ engine = <<>>
    /\ invoked = <<>>
    /\ servers = <<>>
    /\ summary = InitialSummary
    /\ escaped = None

McpVars == <<document, mcpServers, pc, i, pending, call, engine, invoked, servers, summary, escaped>>

\* The skills directory is resolved: main returns 1 when it does not exist, and
\* otherwise goes on to set up the analyzers and the scanner.
SkillsCheckDir ==
    /\ skill.pc = "args"
    /\ skill' = IF skill.dir_exists
                THEN [skill EXCEPT !.pc = "scan"]
                ELSE [skill EXCEPT !.pc = "returned", !.exit_code = "1"]
    /\ UNCHANGED McpVars

\* scanner.scan_directory raises: main prints the error and returns 1.
SkillsScanRaises ==
    /\ skill.pc = "scan"
    /\ skill' = [skill EXCEPT !.pc = "returned", !.exit_code = "1"]
    /\ UNCHANGED McpVars

\* scanner.scan_directory returns a report.
SkillsScanReturns ==
    /\ skill.pc = "scan"
    /\ \E report \in Reports : skill' = [skill EXCEPT !.pc = "report", !.report = report]
    /\ UNCHANGED McpVars

\* The results are printed, the reports saved, and main returns its exit code.
SkillsFinish ==
    /\ skill.pc = "report"
    /\ skill' = [skill EXCEPT
                    !.pc = "returned",
                    !.exit_code = IF SkillExitCode(skill.fail_on_findings, skill.report) = 1
                                  THEN "1" ELSE "0"]
    /\ UNCHANGED McpVars

NextSkills ==
    \/ SkillsCheckDir
    \/ SkillsScanRaises
    \/ SkillsScanReturns
    \/ SkillsFinish

SpecSkills == InitSkills /\ [][NextSkills]_vars

\* C13: after a scan that did not raise, main returns 1 exactly when
\* --fail-on-findings was given and there is a CRITICAL or a HIGH finding; in every
\* other case it returns 0, whatever the medium, low and info counts and whether
\* or not the skills are safe.
C13_ExitCode ==
    skill.pc = "returned" /\ skill.report.scanned =>
        /\ skill.exit_code \in {"0", "1"}
        /\ skill.exit_code = "1" <=>
            /\ skill.fail_on_findings
            /\ skill.report.critical_count > 0 \/ skill.report.high_count > 0

\* main has returned 1 for a HIGH finding with no CRITICAL one.
C13_Witness ==
    /\ skill.pc = "returned"
    /\ skill.report.scanned
    /\ skill.fail_on_findings
    /\ skill.report.critical_count = 0 /\ skill.report.high_count > 0
    /\ skill.exit_code = "1"

\* ------------------------------------------ Authorization headers in depth

\* The pieces an Authorization value is made of: the scheme prefixes "Bearer " and
\* "Basic ", and token text holding neither.
Lexemes == {"Bearer ", "Basic ", "tok"}

\* http entries with a url: no headers, headers without Authorization, and every
\* Authorization value of up to MaxHeaderLen pieces.
AuthEntries ==
    {[type |-> "http", url |-> "https://mcp.example/sse"],
     [type |-> "http", url |-> "https://mcp.example/sse", headers |-> [Accept |-> <<"tok">>]]}
    \cup {[type |-> "http", url |-> "https://mcp.example/sse",
           headers |-> [Authorization |-> h]] : h \in SeqsUpTo(Lexemes, MaxHeaderLen)}

InitAuth == InitWith({<<e>> : e \in AuthEntries})

NextAuth ==
    \/ Begin
    \/ DispatchHttp
    \/ EngineReturn
    \/ EngineRaise
    \/ ReturnFromScan

SpecAuth == InitAuth /\ [][NextAuth]_vars

\* The entry has an Authorization value.
HasAuthorization(server_config) ==
    /\ "headers" \in DOMAIN server_config
    /\ "Authorization" \in DOMAIN server_config.headers

\* The entry has an Authorization value of the form "Bearer <token>".
BearerForm(server_config) ==
    /\ HasAuthorization(server_config)
    /\ Len(server_config.headers.Authorization) >= 1
    /\ server_config.headers.Authorization[1] = "Bearer "

\* C14: the engine is called with a bearer credential exactly when the entry's
\* Authorization value has the form "Bearer <token>", the credential being the
\* value without its leading "Bearer "; with any other value, or none, the
\* engine is called with auth = None.
C14_BearerToken ==
    pc = "await" /\ call.fn = "scan_remote_server_tools" =>
        IF BearerForm(mcpServers[i])
        THEN /\ call.auth.auth_type = "BEARER"
             /\ call.auth.bearer_token = Tail(mcpServers[i].headers.Authorization)
        ELSE call.auth = NoAuth

\* -------------------------------------------------- Order of the run (C15)

FailedServers == {k \in 1..N : servers[k].status = "failed"}

\* The results recorded are those of the servers before the cursor, in document
\* order; a strategy or the engine has been invoked for no server after the
\* cursor; and the summary counts each recorded result once.
FoldedOnceInOrder ==
    /\ \A k \in 1..N :
        /\ servers[k] # NoEntry <=> k < i
        /\ servers[k] # NoEntry => servers[k].status \in Terminal
        /\ invoked[k] # "none" \/ engine[k] # NotCalled => k <= i
    /\ summary.scanned_servers = Cardinality(CompletedServers)
    /\ summary.failed_servers = Cardinality(FailedServers)
    /\ summary.total_tools = SumOver(ToolsOf, CompletedServers)
    /\ summary.total_findings = SumOver(FindingsOf, CompletedServers)

\* A step records at most the result of the server at the cursor, never touches
\* a recorded result, folds what it records once, and changes the summary
\* otherwise only to set total_servers at the start.
StoreThenFoldOnce ==
    /\ \A k \in 1..N : servers[k] # NoEntry => servers'[k] = servers[k]
    /\ servers' # servers =>
        /\ i' = i + 1
        /\ \A k \in 1..N : k # i => servers'[k] = servers[k]
        /\ summary' = UpdateSummary(summary, servers'[i])
        /\ \A k \in 1..N : invoked'[k] # "none" => k <= i
    /\ servers' = servers /\ summary' # summary => pc = "start"

\* C15: servers are processed in document order; the result of each is stored and
\* folded into the summary exactly once, before the strategy of the next server
\* is invoked; and the summary at the end counts each result once.
C15_OrderedFoldOnce == [](FoldedOnceInOrder) /\ [][StoreThenFoldOnce]_vars

\* The third server's engine call is awaited with a completed and a failed
\* result recorded for the two before it.
C15_Witness ==
    /\ pc = "await"
    /\ i = 3
    /\ invoked[3] # "none"
    /\ servers[1].status = "completed" /\ Len(servers[1].tools) >= 1
    /\ servers[2].status = "failed"
    /\ servers[3] = NoEntry

\* ------------------------------------------- The outer handler of the loop

\* Entries with text print cannot encode.
SurrogateTypeEntry == [type |-> LoneSurrogate]

StdioSurrogateCommand == [type |-> "stdio", command |-> LoneSurrogate]

HttpSurrogateUrl == [type |-> "http", url |-> LoneSurrogate]

\* A print of the pass raises before any result exists: the exception leaves the
\* strategy, if one was called, and is caught by the outer except of
\* scan_all_servers, which stores its own entry and counts a failed server.
DispatchPrintRaises ==
    /\ AtEntry
    /\ IsDict(mcpServers[i])
    /\ PrintRaises(mcpServers[i])
    /\ invoked' = [invoked EXCEPT ![i] =
                     IF ServerType(mcpServers[i]) = "stdio" THEN "scan_stdio_server"
                     ELSE IF ServerType(mcpServers[i]) = "http" THEN "scan_http_server"
                     ELSE @]
    /\ servers' = [servers EXCEPT ![i] = OuterExcept(UnicodeEncodeErrorMsg)]
    /\ summary' = [summary EXCEPT !.failed_servers = @ + 1]
    /\ i' = i + 1
    /\ pc' = "loop"
    /\ pending' = NoEntry
    /\ call' = NoCall
    /\ UNCHANGED <<document, skill, mcpServers, engine, escaped>>

InitIO ==
    InitWith(SeqsUpTo({StdioEntry, HttpNoUrl, WebsocketEntry, SurrogateTypeEntry,
                       StdioSurrogateCommand, HttpSurrogateUrl}, MaxServers))

NextIO == Next \/ DispatchPrintRaises

SpecIO == InitIO /\ [][NextIO]_vars

\* C16: once scan_all_servers has returned, every recorded entry has a status among
\* completed, failed and skipped, and failed_servers is the number of entries whose
\* status is "failed", the entries stored by the outer except included.
C16_TerminalStatusDomain ==
    pc = "done" =>
        /\ \A k \in 1..N : servers[k].status \in Terminal
        /\ summary.failed_servers = Cardinality({k \in 1..N : servers[k].status = "failed"})

\* ------------------------------------------------------------ Cancellation

\* The engine call was cut short by the cancellation of the task.
Cancelled == [kind |-> "cancelled"]

\* Cancel with CancelledError caught like an Exception by the strategy.
CancelCaughtByStrategy ==
    /\ pc = "await"
    /\ engine' = [engine EXCEPT ![i] = Cancelled]
    /\ Store(Finish(pending, Raised("CancelledError")))
    /\ UNCHANGED <<document, skill, mcpServers, invoked, escaped>>

\* The task is cancelled (asyncio.run's answer to the user's interrupt) while a
\* strategy awaits the engine. CancelledError is a BaseException: neither the
\* strategy's `except Exception`, nor the outer one of scan_all_servers, nor the
\* handlers of main catch it, so it leaves scan_all_servers with nothing stored
\* or counted for the server in flight, whose local result is dropped.
Cancel ==
    /\ pc = "await"
    /\ engine' = [engine EXCEPT ![i] = Cancelled]
    /\ pc' = "raised"
    /\ escaped' = "CancelledError"
    /\ pending' = NoEntry
    /\ call' = NoCall
    /\ UNCHANGED <<document, skill, mcpServers, i, invoked, servers, summary>>

InitCancel ==
    InitWith(SeqsUpTo({StdioEntry, StdioNoCommand, HttpBearerEntry, WebsocketEntry},
                      MaxServers))

NextCancel == Next \/ Cancel

SpecCancel == InitCancel /\ [][NextCancel]_vars

Counters ==
    {"total_servers", "scanned_servers", "failed_servers", "total_tools", "safe_tools",
     "unsafe_tools", "total_findings"}

RecordedServers == {k \in 1..N : servers[k] # NoEntry}

\* After a cancellation the server in flight has no entry and no share in any
\* counter: the counters are those of the recorded entries.
ConsistentAfterCancel ==
    \A k \in 1..N :
        engine[k] = Cancelled =>
            /\ pc = "raised" /\ escaped = "CancelledError"
            /\ servers[k] = NoEntry
            /\ RecordedServers = 1..(k - 1)
            /\ summary.scanned_servers = Cardinality(CompletedServers)
            /\ summary.failed_servers = Cardinality(FailedServers)
            /\ summary.total_tools = SumOver(ToolsOf, CompletedServers)
            /\ summary.total_findings = SumOver(FindingsOf, CompletedServers)
            /\ summary.scanned_servers + summary.failed_servers + SkippedServers
                = Cardinality(RecordedServers)
            /\ summary.safe_tools + summary.unsafe_tools = summary.total_tools

NeverDecremented == \A c \in Counters : summary'[c] >= summary[c]

\* C17: when the run is cancelled while a server's scan awaits the engine, that
\* server has no entry and has added to no counter, scanned + failed + skipped
\* servers is the number of recorded entries, safe_tools + unsafe_tools is
\* total_tools, and no step of the run has decreased a counter.
C17_CancellationConsistency == [](ConsistentAfterCancel) /\ [][NeverDecremented]_vars

\* The second server's scan is cancelled after the first completed with tools.
C17_Witness ==
    /\ N >= 2
    /\ engine[2] = Cancelled
    /\ servers[1].status = "completed" /\ summary.total_tools >= 1
    /\ pc = "raised"

====
